---- MODULE Spec2Model ----
(***************************************************************************)
(* Model of src/app.py: the gateway call analyze_image_with_groq and the   *)
(* line scanner of display_results.                                        *)
(*                                                                         *)
(* A Python str is modelled as a sequence of characters.  A character is   *)
(* a one-character TLA+ string; the two non-ASCII characters the scanner   *)
(* meets are named: "BULLET" is U+2022 and "ARABIC3" is U+0663             *)
(* (ARABIC-INDIC DIGIT THREE, for which str.isdigit() is True).            *)
(***************************************************************************)
EXTENDS Integers, Sequences, FiniteSets, TLC

VARIABLES pc, raised, analysis_text, lines, idx, current_section,
          disease_name, symptoms, actions, rendered, error

vars == <<pc, raised, analysis_text, lines, idx, current_section,
          disease_name, symptoms, actions, rendered, error>>

---------------------------------------------------------------------------
(* Bounds of the model.                                                    *)

\* most lines in a model response
MaxLines == 4
\* most lines in an exception message
MaxMsgLines == 2

---------------------------------------------------------------------------
(* Characters and str methods.                                             *)

BULLET == "BULLET"
ARABIC3 == "ARABIC3"

\* characters removed by str.strip() with no argument
Whitespace == {" ", "\t", "\n", "\r"}

AsciiDigits == {"0", "1", "2", "3", "4", "5", "6", "7", "8", "9"}

\* c.isdigit(): every Unicode digit, not only '0'..'9'
IsDigit(c) == c \in AsciiDigits \cup {ARABIC3}

\* the argument of lstrip on lines 139 and 142
BulletChars == {"-", BULLET, ".", " "} \cup AsciiDigits

UpperToLower ==
    [c \in {"A", "C", "D", "E", "I", "M", "N", "O", "R", "S", "T"} |->
        CASE c = "A" -> "a" [] c = "C" -> "c" [] c = "D" -> "d"
          [] c = "E" -> "e" [] c = "I" -> "i" [] c = "M" -> "m"
          [] c = "N" -> "n" [] c = "O" -> "o" [] c = "R" -> "r"
          [] c = "S" -> "s" [] c = "T" -> "t"]

\* s.lower()
Lower(s) ==
    [k \in 1..Len(s) |->
        IF s[k] \in DOMAIN UpperToLower THEN UpperToLower[s[k]] ELSE s[k]]

\* sub in s
Contains(s, sub) ==
    \E k \in 0..(Len(s) - Len(sub)) : \A j \in 1..Len(sub) : s[k + j] = sub[j]

RECURSIVE LStrip(_, _)
\* s.lstrip(chars)
LStrip(s, chars) ==
    IF s # <<>> /\ Head(s) \in chars THEN LStrip(Tail(s), chars) ELSE s

RECURSIVE RStrip(_, _)
RStrip(s, chars) ==
    IF s # <<>> /\ s[Len(s)] \in chars
    THEN RStrip(SubSeq(s, 1, Len(s) - 1), chars)
    ELSE s

\* s.strip()
Strip(s) == LStrip(RStrip(s, Whitespace), Whitespace)

\* s.replace(c, '')
Remove(s, c) == SelectSeq(s, LAMBDA x : x # c)

\* s.startswith(c); False on the empty string
StartsWith(s, c) == s # <<>> /\ Head(s) = c

RECURSIVE Split(_)
\* s.split('\n')
Split(s) ==
    IF \E k \in 1..Len(s) : s[k] = "\n"
    THEN LET k == CHOOSE j \in 1..Len(s) :
                      s[j] = "\n" /\ \A m \in 1..(j - 1) : s[m] # "\n"
         IN  <<SubSeq(s, 1, k - 1)>> \o Split(SubSeq(s, k + 1, Len(s)))
    ELSE <<s>>

RECURSIVE Join(_)
\* '\n'.join(ls)
Join(ls) ==
    IF ls = <<>> THEN <<>>
    ELSE IF Len(ls) = 1 THEN ls[1]
    ELSE ls[1] \o <<"\n">> \o Join(Tail(ls))

---------------------------------------------------------------------------
(* Keywords of the header checks.                                          *)

KwDisease == <<"d", "i", "s", "e", "a", "s", "e">>
KwIdentification ==
    <<"i", "d", "e", "n", "t", "i", "f", "i", "c", "a", "t", "i", "o", "n">>
KwSymptom == <<"s", "y", "m", "p", "t", "o", "m">>
KwAction == <<"a", "c", "t", "i", "o", "n">>
KwTreatment == <<"t", "r", "e", "a", "t", "m", "e", "n", "t">>
KwRecommend == <<"r", "e", "c", "o", "m", "m", "e", "n", "d">>

\* f"Error during analysis: "
ErrPrefix ==
    <<"E", "r", "r", "o", "r", " ", "d", "u", "r", "i", "n", "g", " ",
      "a", "n", "a", "l", "y", "s", "i", "s", ":", " ">>

---------------------------------------------------------------------------
(* Lines the gateway may produce.                                          *)

\* "Disease Identification and Symptom notes"
LnDiseaseHdr ==
    <<"D", "i", "s", "e", "a", "s", "e", " ", "I", "d", "e", "n", "t", "i",
      "f", "i", "c", "a", "t", "i", "o", "n", " ", "a", "n", "d", " ", "S",
      "y", "m", "p", "t", "o", "m", " ", "n", "o", "t", "e", "s">>
\* "Symptoms and treatment:"
LnSymptomsHdr ==
    <<"S", "y", "m", "p", "t", "o", "m", "s", " ", "a", "n", "d", " ", "t",
      "r", "e", "a", "t", "m", "e", "n", "t", ":">>
\* "RECOMMENDED Actions"
LnActionsHdr ==
    <<"R", "E", "C", "O", "M", "M", "E", "N", "D", "E", "D", " ", "A", "c",
      "t", "i", "o", "n", "s">>
\* "# Rust disease *"
LnName ==
    <<"#", " ", "R", "u", "s", "t", " ", "d", "i", "s", "e", "a", "s", "e",
      " ", "*">>
\* "** #"
LnStars == <<"*", "*", " ", "#">>
\* " - streaks\t"
LnDash == <<" ", "-", " ", "s", "t", "r", "e", "a", "k", "s", "\t">>
\* "2. Apply fungicide"
LnNum ==
    <<"2", ".", " ", "A", "p", "p", "l", "y", " ", "f", "u", "n", "g", "i",
      "c", "i", "d", "e">>
\* "<U+2022> spots"
LnBullet == <<BULLET, " ", "s", "p", "o", "t", "s">>
\* "<U+0663> x"
LnArabic == <<ARABIC3, " ", "x">>
\* "  "
LnBlank == <<" ", " ">>
\* "-."
LnDashDot == <<"-", ".">>

Pool == {LnDiseaseHdr, LnSymptomsHdr, LnActionsHdr, LnName, LnStars,
         LnDash, LnNum, LnBullet, LnArabic, LnBlank, LnDashDot}

\* the texts of at most n lines
Texts(n) == {Join(ls) : ls \in UNION {[1..m -> Pool] : m \in 0..n}}

---------------------------------------------------------------------------
(* display_results: the scan.                                              *)

\* a truth test that every str passes
TruthyAlways(s) == TRUE

\* truth value of a str: `if not line`, `and line`, `not disease_name`
Truthy(s) == s # <<>>

\* the chain with the symptom check ahead of the disease check
HeaderOfSymptomFirst(line) ==
    LET low == Lower(line)
    IN  IF Contains(low, KwSymptom)
        THEN "symptoms"
        ELSE IF Contains(low, KwDisease) /\ Contains(low, KwIdentification)
        THEN "disease"
        ELSE IF Contains(low, KwAction) \/ Contains(low, KwTreatment)
                \/ Contains(low, KwRecommend)
        THEN "actions"
        ELSE ""

\* the if/elif chain of lines 125-133; "" when no check matches
HeaderOf(line) ==
    LET low == Lower(line)
    IN  IF Contains(low, KwDisease) /\ Contains(low, KwIdentification)
        THEN "disease"
        ELSE IF Contains(low, KwSymptom)
        THEN "symptoms"
        ELSE IF Contains(low, KwAction) \/ Contains(low, KwTreatment)
                \/ Contains(low, KwRecommend)
        THEN "actions"
        ELSE ""

\* a name that also loses its leading bullet marker
CleanNameStripsBullet(line) ==
    LStrip(Strip(Remove(Remove(line, "*"), "#")), BulletChars)

\* line.replace('*', '').replace('#', '').strip()
CleanName(line) == Strip(Remove(Remove(line, "*"), "#"))

\* line[0] is reached, and raises IndexError, when both startswith tests
\* fail on the empty string
IndexRaises(line) ==
    /\ ~StartsWith(line, "-")
    /\ ~StartsWith(line, BULLET)
    /\ line = <<>>

\* line.startswith('-') or line.startswith(BULLET) or line[0].isdigit()
IsBulleted(line) ==
    \/ StartsWith(line, "-")
    \/ StartsWith(line, BULLET)
    \/ (line # <<>> /\ IsDigit(line[1]))

\* an lstrip whose argument lacks the '.'
StripBulletKeepsDot(line) == LStrip(line, BulletChars \ {"."})

\* line.lstrip('-<U+2022>0123456789. ')
StripBullet(line) == LStrip(line, BulletChars)

\* The locals of the loop as one record.
Locals(sec, name, syms, acts) ==
    [section |-> sec, name |-> name, symptoms |-> syms, actions |-> acts,
     error |-> ""]

\* a header that empties the list of the section it enters
OnHeaderResets(st, hdr) ==
    [st EXCEPT !.section = hdr,
               !.symptoms = IF hdr = "symptoms" THEN <<>> ELSE @,
               !.actions = IF hdr = "actions" THEN <<>> ELSE @]

\* current_section = ...; continue
OnHeader(st, hdr) == [st EXCEPT !.section = hdr]

\* the guard without `not disease_name`
TakesNameAlways(st, line) == st.section = "disease" /\ Truthy(line)

\* the guard of line 135
TakesName(st, line) ==
    st.section = "disease" /\ Truthy(line) /\ ~Truthy(st.name)

\* line 136
OnDisease(st, line) == [st EXCEPT !.name = CleanName(line)]

\* insert(0, ...) in place of append
OnSymptomsPrepends(st, line) ==
    IF IndexRaises(line) THEN [st EXCEPT !.error = "IndexError"]
    ELSE IF IsBulleted(line)
    THEN [st EXCEPT !.symptoms = <<StripBullet(line)>> \o @]
    ELSE st

\* lines 138-139
OnSymptoms(st, line) ==
    IF IndexRaises(line) THEN [st EXCEPT !.error = "IndexError"]
    ELSE IF IsBulleted(line)
    THEN [st EXCEPT !.symptoms = Append(@, StripBullet(line))]
    ELSE st

\* lines 141-142
OnActions(st, line) ==
    IF IndexRaises(line) THEN [st EXCEPT !.error = "IndexError"]
    ELSE IF IsBulleted(line)
    THEN [st EXCEPT !.actions = Append(@, StripBullet(line))]
    ELSE st

\* the body of the for loop, lines 121-142
ScanLine(st, raw) ==
    LET line == Strip(raw)
        hdr == HeaderOf(line)
    IN  IF ~Truthy(line) THEN st
        ELSE IF hdr # "" THEN OnHeader(st, hdr)
        ELSE IF TakesName(st, line) THEN OnDisease(st, line)
        ELSE IF st.section = "symptoms" /\ Truthy(line)
        THEN OnSymptoms(st, line)
        ELSE IF st.section = "actions" /\ Truthy(line)
        THEN OnActions(st, line)
        ELSE st

\* the next position of `for line in lines`
NextIdx(k) == k + 1

\* analyze_image_with_groq: the gateway answers, or raises and the except
\* clause turns the exception into text
Analyze ==
    /\ pc = "idle"
    /\ \/ \E text \in Texts(MaxLines) :
             /\ analysis_text' = text
             /\ raised' = FALSE
       \/ \E msg \in Texts(MaxMsgLines) :
             /\ analysis_text' = ErrPrefix \o msg
             /\ raised' = TRUE
    /\ pc' = "display"
    /\ UNCHANGED <<lines, idx, current_section, disease_name, symptoms,
                   actions, rendered, error>>

\* lines 116-118
DisplayStart ==
    /\ pc = "display"
    /\ lines' = Split(analysis_text)
    /\ disease_name' = <<>>
    /\ symptoms' = <<>>
    /\ actions' = <<>>
    /\ current_section' = "None"
    /\ idx' = 1
    /\ pc' = "loop"
    /\ UNCHANGED <<raised, analysis_text, rendered, error>>

\* one iteration of the for loop
LoopStep ==
    /\ pc = "loop"
    /\ idx <= Len(lines)
    /\ \E st \in {ScanLine(Locals(current_section, disease_name, symptoms,
                                  actions), lines[idx])} :
           /\ current_section' = st.section
           /\ disease_name' = st.name
           /\ symptoms' = st.symptoms
           /\ actions' = st.actions
           /\ error' = st.error
           /\ IF st.error = ""
              THEN idx' = NextIdx(idx) /\ pc' = pc
              ELSE idx' = idx /\ pc' = "crashed"
    /\ UNCHANGED <<raised, analysis_text, lines, rendered>>

Block(tag, text) == [tag |-> tag, text |-> text]

\* the raw text shown whenever no disease name was found
BlocksRawOnNoName(name, syms, acts, text) ==
    (IF Truthy(name) THEN <<Block("disease-name", name)>> ELSE <<>>)
    \o (IF syms # <<>>
        THEN <<Block("section-header", <<"S">>)>>
             \o [k \in 1..Len(syms) |-> Block("item", syms[k])]
        ELSE <<>>)
    \o (IF acts # <<>>
        THEN <<Block("section-header", <<"A">>)>>
             \o [k \in 1..Len(acts) |-> Block("item", acts[k])]
        ELSE <<>>)
    \o (IF ~Truthy(name) THEN <<Block("raw", text)>> ELSE <<>>)

\* the st.markdown calls of lines 144-158
Blocks(name, syms, acts, text) ==
    (IF Truthy(name) THEN <<Block("disease-name", name)>> ELSE <<>>)
    \o (IF syms # <<>>
        THEN <<Block("section-header", <<"S">>)>>
             \o [k \in 1..Len(syms) |-> Block("item", syms[k])]
        ELSE <<>>)
    \o (IF acts # <<>>
        THEN <<Block("section-header", <<"A">>)>>
             \o [k \in 1..Len(acts) |-> Block("item", acts[k])]
        ELSE <<>>)
    \o (IF ~Truthy(name) /\ syms = <<>> /\ acts = <<>>
        THEN <<Block("raw", text)>>
        ELSE <<>>)

\* the loop is exhausted; lines 144-158
Render ==
    /\ pc = "loop"
    /\ idx > Len(lines)
    /\ rendered' = Blocks(disease_name, symptoms, actions, analysis_text)
    /\ pc' = "done"
    /\ UNCHANGED <<raised, analysis_text, lines, idx, current_section,
                   disease_name, symptoms, actions, error>>

\* Streamlit runs main() again on the next interaction; the locals of the
\* previous run are gone
Rerun ==
    /\ pc = "done"
    /\ pc' = "idle"
    /\ raised' = FALSE
    /\ analysis_text' = <<>>
    /\ lines' = <<>>
    /\ idx' = 1
    /\ current_section' = "None"
    /\ disease_name' = <<>>
    /\ symptoms' = <<>>
    /\ actions' = <<>>
    /\ rendered' = <<>>
    /\ UNCHANGED error

Init ==
    /\ pc = "idle"
    /\ raised = FALSE
    /\ analysis_text = <<>>
    /\ lines = <<>>
    /\ idx = 1
    /\ current_section = "None"
    /\ disease_name = <<>>
    /\ symptoms = <<>>
    /\ actions = <<>>
    /\ rendered = <<>>
    /\ error = ""

Next == Analyze \/ DisplayStart \/ LoopStep \/ Render \/ Rerun

Spec == Init /\ [][Next]_vars

---------------------------------------------------------------------------
(* Vocabulary of the properties.                                           *)

\* the loop is about to process lines[idx]
Scanning == pc = "loop" /\ idx <= Len(lines)

\* the trimmed line the loop is about to process
Cur == Strip(lines[idx])

MatchesDisease(l) ==
    LET low == Lower(l)
    IN  Contains(low, KwDisease) /\ Contains(low, KwIdentification)
MatchesSymptoms(l) == Contains(Lower(l), KwSymptom)
MatchesActions(l) ==
    LET low == Lower(l)
    IN  \/ Contains(low, KwAction)
        \/ Contains(low, KwTreatment)
        \/ Contains(low, KwRecommend)
IsHeaderLine(l) == MatchesDisease(l) \/ MatchesSymptoms(l) \/ MatchesActions(l)

\* a raw line that is neither empty after trimming nor a header
NonHeaderText(raw) == Strip(raw) # <<>> /\ ~IsHeaderLine(Strip(raw))

\* the text of a raw line with '*' and '#' removed, trimmed
Cleaned(raw) == Strip(Remove(Remove(Strip(raw), "*"), "#"))

\* the characters of a leading bullet run
LeadingRun == {"-", BULLET, ".", " "} \cup AsciiDigits

\* item is line without its maximal leading run of LeadingRun characters
IsStripped(line, item) ==
    \E n \in 0..Len(line) :
        /\ item = SubSeq(line, n + 1, Len(line))
        /\ \A j \in 1..n : line[j] \in LeadingRun
        /\ item = <<>> \/ item[1] \notin LeadingRun

\* new is old with exactly one item added at its end
Extended(old, new) ==
    Len(new) = Len(old) + 1 /\ SubSeq(new, 1, Len(old)) = old

AllEmpty == disease_name = <<>> /\ symptoms = <<>> /\ actions = <<>>

RawShown == \E k \in 1..Len(rendered) : rendered[k].tag = "raw"

TxtStreaks == <<"s", "t", "r", "e", "a", "k", "s">>
TxtSpots == <<"s", "p", "o", "t", "s">>
TxtDashStreaks == <<"-", " ">> \o TxtStreaks
TxtRustDisease ==
    <<"R", "u", "s", "t", " ", "d", "i", "s", "e", "a", "s", "e">>
TxtApplyFungicide ==
    <<"A", "p", "p", "l", "y", " ", "f", "u", "n", "g", "i", "c", "i", "d",
      "e">>

---------------------------------------------------------------------------
(* C1                                                                      *)

\* C1: on every non-empty trimmed line the header checks run in the order
\* DISEASE, SYMPTOMS, ACTIONS, case-insensitively, and the first check that
\* matches sets the cursor, whatever the cursor was; a line that matches no
\* check leaves the cursor where it was.
C1_FirstMatchWins ==
    [][Scanning =>
         \A l \in {Cur} :
             l # <<>> =>
                 \A d \in {MatchesDisease(l)}, s \in {MatchesSymptoms(l)},
                    a \in {MatchesActions(l)} :
                     current_section' =
                         IF d THEN "disease"
                         ELSE IF s THEN "symptoms"
                         ELSE IF a THEN "actions"
                         ELSE current_section]_vars

\* a line matching the DISEASE and the SYMPTOMS checks was processed while
\* the cursor was SYMPTOMS, and the cursor is now DISEASE
C1_Witness ==
    /\ pc = "loop"
    /\ idx >= 3
    /\ Strip(lines[idx - 1]) = LnDiseaseHdr
    /\ MatchesSymptoms(LnDiseaseHdr)
    /\ Strip(lines[idx - 2]) = LnSymptomsHdr
    /\ current_section = "disease"

---------------------------------------------------------------------------
(* C2                                                                      *)

\* lines[k] is the first DISEASE header, and lines[a], lines[b] are the
\* first two non-empty non-header lines after it, with no header between
TwoUnderDisease(k, a, b) ==
    /\ k < a /\ a < b /\ b <= Len(lines)
    /\ MatchesDisease(Strip(lines[k]))
    /\ \A j \in 1..(k - 1) : ~MatchesDisease(Strip(lines[j]))
    /\ NonHeaderText(lines[a])
    /\ NonHeaderText(lines[b])
    /\ \A j \in ((k + 1)..(b - 1)) \ {a} : Strip(lines[j]) = <<>>

\* C2 as stated: with two non-empty non-header lines under a DISEASE section
\* the name is the cleaned first line, whatever the first line contains.
C2_Original ==
    pc = "done" =>
        \A k, a, b \in 1..Len(lines) :
            TwoUnderDisease(k, a, b) => disease_name = Cleaned(lines[a])

\* C2 amended: with two non-empty non-header lines under the first DISEASE
\* section, the name is the cleaned first line when that is non-empty, and
\* the second line is then ignored; when the first line cleans to the empty
\* string it sets no name, and the second line is captured if it cleans to
\* a non-empty string.
C2_FirstNonEmptyName ==
    pc = "done" =>
        \A k, a, b \in 1..Len(lines) :
            TwoUnderDisease(k, a, b) =>
                /\ Cleaned(lines[a]) # <<>>
                      => disease_name = Cleaned(lines[a])
                /\ (Cleaned(lines[a]) = <<>> /\ Cleaned(lines[b]) # <<>>)
                      => disease_name = Cleaned(lines[b])

\* two different names were offered and the first was kept
C2_Witness ==
    /\ pc = "done"
    /\ \E k, a, b \in 1..Len(lines) :
          /\ TwoUnderDisease(k, a, b)
          /\ Cleaned(lines[a]) = TxtRustDisease
          /\ Cleaned(lines[b]) = TxtDashStreaks
    /\ disease_name = TxtRustDisease

---------------------------------------------------------------------------
(* C3                                                                      *)

\* the input is "Disease Identification and Symptom notes" followed by one
\* bulleted line that holds no header keyword
HeaderThenBullet ==
    /\ Len(lines) = 2
    /\ Strip(lines[1]) = LnDiseaseHdr
    /\ NonHeaderText(lines[2])
    /\ Strip(lines[2])[1] \in {"-", BULLET, ARABIC3} \cup AsciiDigits

\* C3 as stated: the bulleted line after the header is routed to symptoms.
C3_Original ==
    (pc = "done" /\ HeaderThenBullet) => symptoms # <<>>

\* C3 amended: the header sets the cursor to DISEASE, so the bulleted line
\* is captured as the disease name (with '*' and '#' removed and trimmed)
\* and symptoms and actions stay empty.
C3_BulletBecomesName ==
    (pc = "done" /\ HeaderThenBullet) =>
        /\ disease_name = Cleaned(lines[2])
        /\ disease_name # <<>>
        /\ symptoms = <<>>
        /\ actions = <<>>
        /\ ~RawShown

\* the header followed by " - streaks\t" ended with the name "- streaks"
C3_Witness ==
    /\ pc = "done"
    /\ HeaderThenBullet
    /\ lines[2] = LnDash
    /\ disease_name = TxtDashStreaks

---------------------------------------------------------------------------
(* C4                                                                      *)

\* C4 as stated: when the gateway raises, the text is "Error during
\* analysis: " followed by the message, and the scan of every such text ends
\* with all three fields empty, so the raw text is what is displayed.
C4_Original ==
    (pc = "done" /\ raised) =>
        /\ SubSeq(analysis_text, 1, Len(ErrPrefix)) = ErrPrefix
        /\ AllEmpty
        /\ rendered = <<Block("raw", analysis_text)>>

---------------------------------------------------------------------------
(* C5                                                                      *)

\* C5 as stated: under SYMPTOMS or ACTIONS a non-header line changes a list
\* only if its first character is '-', U+2022 or one of '0'..'9'.
C5_Original ==
    [][(Scanning /\ Cur # <<>> /\ ~IsHeaderLine(Cur)
          /\ current_section \in {"symptoms", "actions"}
          /\ Cur[1] \notin ({"-", BULLET} \cup AsciiDigits))
         => UNCHANGED <<symptoms, actions>>]_vars

---------------------------------------------------------------------------
(* C6                                                                      *)

\* C6: every item appended to symptoms or actions is the trimmed line
\* without its maximal leading run of '-', U+2022, digits, '.' and ' ': a
\* suffix of the line that does not begin with one of those characters.
C6_BulletStripping ==
    [][Scanning =>
         /\ symptoms' # symptoms
               => IsStripped(Cur, symptoms'[Len(symptoms')])
         /\ actions' # actions
               => IsStripped(Cur, actions'[Len(actions')])]_vars

\* "2. Apply fungicide" under ACTIONS was stored as "Apply fungicide"
C6_Witness ==
    /\ pc = "loop"
    /\ idx >= 2
    /\ lines[idx - 1] = LnNum
    /\ current_section = "actions"
    /\ actions # <<>>
    /\ actions[Len(actions)] = TxtApplyFungicide

---------------------------------------------------------------------------
(* C7                                                                      *)

NoHeaderLine == \A k \in 1..Len(lines) : ~IsHeaderLine(Strip(lines[k]))

\* C7: while the cursor is NONE no line changes a field, an input without a
\* header line ends with the three fields empty, and the raw text is
\* rendered, verbatim and alone, exactly when the three fields are empty.
C7_Fallback ==
    /\ [](pc = "done" =>
            /\ NoHeaderLine => AllEmpty
            /\ RawShown <=> AllEmpty
            /\ AllEmpty => rendered = <<Block("raw", analysis_text)>>)
    /\ [][(Scanning /\ current_section = "None")
            => UNCHANGED <<disease_name, symptoms, actions>>]_vars

\* a response with bulleted lines and no header was rendered raw
C7_Witness ==
    /\ pc = "done"
    /\ ~raised
    /\ NoHeaderLine
    /\ \E k \in 1..Len(lines) : lines[k] = LnNum
    /\ \E k \in 1..Len(lines) : lines[k] = LnName
    /\ AllEmpty
    /\ rendered = <<Block("raw", analysis_text)>>

---------------------------------------------------------------------------
(* C8                                                                      *)

IsStr(s) == DOMAIN s = 1..Len(s) /\ \A k \in 1..Len(s) : s[k] \in STRING
IsStrList(l) == DOMAIN l = 1..Len(l) /\ \A k \in 1..Len(l) : IsStr(l[k])

\* C8: the scan visits the lines one by one, each once, never raises (the
\* first-character test is never reached with an empty line), and ends after
\* the last line with a string and two lists of strings.
C8_Totality ==
    /\ [](/\ error = ""
          /\ pc # "crashed"
          /\ IsStr(disease_name) /\ IsStrList(symptoms) /\ IsStrList(actions)
          /\ pc \in {"loop", "done"} => idx \in 1..(Len(lines) + 1)
          /\ pc = "done" => idx = Len(lines) + 1)
    /\ [][Scanning => (idx' = idx + 1 /\ pc' = "loop")]_vars

\* a whitespace-only line was passed under SYMPTOMS and the scan went on to
\* accept the next line
C8_Witness ==
    /\ pc = "done"
    /\ Len(lines) = 3
    /\ lines[1] = LnSymptomsHdr
    /\ lines[2] = LnBlank
    /\ lines[3] = LnDashDot
    /\ symptoms = <<<<>>>>

---------------------------------------------------------------------------
(* C9                                                                      *)

\* C9: a header line leaves the three fields as they were; an accepted item
\* goes after the items already collected; a name that is set is not
\* cleared or replaced when DISEASE is entered again.
C9_HeaderFrame ==
    [][Scanning =>
         /\ (Cur # <<>> /\ IsHeaderLine(Cur))
               => UNCHANGED <<disease_name, symptoms, actions>>
         /\ symptoms' # symptoms => Extended(symptoms, symptoms')
         /\ actions' # actions => Extended(actions, actions')
         /\ (disease_name # <<>> /\ MatchesDisease(Cur))
               => disease_name' = disease_name]_vars

\* SYMPTOMS was entered twice and the second item follows the first
C9_Witness ==
    /\ pc = "loop"
    /\ idx = 5
    /\ lines[1] = LnSymptomsHdr
    /\ lines[2] = LnDash
    /\ lines[3] = LnSymptomsHdr
    /\ lines[4] = LnBullet
    /\ symptoms = <<TxtStreaks, TxtSpots>>

---------------------------------------------------------------------------
(* C10                                                                     *)

Changed(old, new) == IF old = new THEN 0 ELSE 1

\* C10: a step of the scan leaves each list alone or adds one item at its
\* end, changes at most one of the three fields, and never changes a name
\* that is already non-empty.
C10_MonotoneScan ==
    [][Scanning =>
         /\ symptoms' = symptoms \/ Extended(symptoms, symptoms')
         /\ actions' = actions \/ Extended(actions, actions')
         /\ Changed(disease_name, disease_name')
               + Changed(symptoms, symptoms')
               + Changed(actions, actions') <= 1
         /\ disease_name # <<>> => disease_name' = disease_name]_vars

\* two accepted lines are stored in the order of their source lines
C10_Witness ==
    /\ pc = "done"
    /\ lines[1] = LnSymptomsHdr
    /\ Len(lines) >= 3
    /\ lines[2] = LnNum
    /\ lines[3] = LnDash
    /\ Len(symptoms) >= 2
    /\ symptoms[1] = TxtApplyFungicide
    /\ symptoms[2] = TxtStreaks

====
